---- MODULE Spec2Model ----
(***************************************************************************)
(* Smart street light controller (PIC16F877A): the Timer2 software clock,  *)
(* the main polling cycle with sunrise/sunset logging, and the 4-bit LCD   *)
(* driver.  The model follows the sunrise/sunset variant                   *)
(* (src/unnamed/part_000, lines 252-548); the basic variants share its     *)
(* interrupt handler, light-control logic and LCD driver.                  *)
(***************************************************************************)
EXTENDS Integers, Sequences, FiniteSets, TLC

VARIABLES
    seconds, minutes, hours,        \* volatile clock fields (unsigned char)
    TMR2ON, TMR2IE, PEIE, GIE,      \* timer run bit, interrupt enables
    TMR2IF,                         \* Timer2 interrupt flag
    isr,                            \* position inside ISR ("idle" = not in it)
    ticks,                          \* handler invocations since power-on
    pc, ret, txq,                   \* main position, return position, bytes left to send
    isNight, motion, brightness,    \* locals of main
    prevLDRState,                   \* day/night latch
    sunrise_h, sunrise_m, sunset_h, sunset_m,
    RC1,                            \* actuator line
    LCD_RS, LCD_EN, LCD_D,          \* display bus lines (LCD_D: pins 4..7)
    lpc, arg,                       \* position inside LCD_Command/LCD_Data, its argument
    rx,                             \* nibbles the display latched on falling strobes
    ddram, ac,                      \* the display's character memory and address counter
    call,                           \* function and arguments of the last CursorCall, DirectCall or RenderCall
    firstCycle,                     \* TRUE until the first loop iteration completes
    ldr0,                           \* the sensor value read at line 359
    event,                          \* edge branch taken in the current cycle
    seenHM,                         \* clock (hours, minutes) at the instants of a timestamp read
    initRuns, initDone, early       \* LCD_Init executions, its completion, ops issued before it

clockVars == <<seconds, minutes, hours>>
intrVars  == <<TMR2ON, TMR2IE, PEIE, GIE, TMR2IF, isr, ticks>>
ctlVars   == <<pc, ret, txq>>
localVars == <<isNight, motion, brightness, prevLDRState>>
recVars   == <<sunrise_h, sunrise_m, sunset_h, sunset_m>>
initVars  == <<initRuns, initDone, early>>
cycVars   == <<firstCycle, event, ldr0>>
busVars   == <<LCD_RS, LCD_EN, LCD_D, lpc, arg, rx>>
devVars   == <<ddram, ac>>
mainVars  == <<ctlVars, localVars, recVars, RC1, initVars, cycVars>>
vars      == <<clockVars, intrVars, mainVars, seenHM, busVars, devVars, call>>

(***************************************************************************)
(* Bounds of the model.                                                    *)
(***************************************************************************)
\* ticks allowed in the full-program specification
MaxTicks == 2
\* ticks allowed in the clock-only specification: boot (22:00:00) to midnight
\* and one full day after it
MaxTicksDay == 93600
\* the hour-rollover specification: ticks during the splash delay
\* (22:00:00 to 22:59:59) and ticks allowed in all
SplashTicks == 3599
MaxTicksHour == 3601
\* the cursor specification: LCD_SetCursor is called with rows 0..MaxRow
\* and columns 0..MaxCol
MaxRow == 3
MaxCol == 17
\* the overlay specification: the first edge of a run is detected with the
\* clock at any hour 0..MaxHour and minute 0..MaxMinute
MaxHour == 23
MaxMinute == 59

(***************************************************************************)
(* Program constants.                                                      *)
(***************************************************************************)
UCharMod   == 256
BootHours  == 22
SecPerMin  == 60
MinPerHour == 60
HourPerDay == 24

Bit == {0, 1}
UChar(x) == x % UCharMod
UInc(x) == UChar(x + 1)

(***************************************************************************)
(* Timer2 interrupt handler.                                               *)
(***************************************************************************)
\* (variants with the comparison off by one)
SecondsWrap_Late(s) == s > SecPerMin
HoursWrap_Late(h)   == h > HourPerDay

SecondsWrap(s) == s >= SecPerMin
MinutesWrap(m) == m >= MinPerHour
HoursWrap(h)   == h >= HourPerDay

\* Timer2 reaches PR2: the flag is raised and, with the enables set, the
\* handler is entered before the main program's next statement.  A run may
\* have its first `hold` ticks arrive while the main program busy-waits in
\* the splash delay (see L356_Delay).  The timer period is far longer than
\* the handler, so no overflow falls inside the handler.
\* (variant: the entry into the handler also drives the strobe line low)
TimerTick_ClearsStrobe(maxTicks, hold) ==
    /\ TMR2ON = 1 /\ TMR2IE = 1 /\ PEIE = 1 /\ GIE = 1
    /\ isr = "idle"
    /\ ticks < maxTicks
    /\ ticks < hold => pc = "L356"
    /\ TMR2IF' = 1
    /\ GIE' = 0
    /\ isr' = "L322"
    /\ ticks' = ticks + 1
    /\ LCD_EN' = 0
    /\ UNCHANGED <<clockVars, TMR2ON, TMR2IE, PEIE, mainVars, seenHM, LCD_RS,
                   LCD_D, lpc, arg, rx, devVars, call>>

TimerTick(maxTicks, hold) ==
    /\ TMR2ON = 1 /\ TMR2IE = 1 /\ PEIE = 1 /\ GIE = 1
    /\ isr = "idle"
    /\ ticks < maxTicks
    /\ ticks < hold => pc = "L356"
    /\ TMR2IF' = 1
    /\ GIE' = 0
    /\ isr' = "L322"
    /\ ticks' = ticks + 1
    /\ UNCHANGED <<clockVars, TMR2ON, TMR2IE, PEIE, mainVars, seenHM, busVars,
                   devVars, call>>

\* The main program is between its read of hours and its read of minutes.
ReadingTime == pc \in {"L370", "L376"}

\* (variant: the handler ends in a plain return, which leaves GIE clear)
Retfie_Return(gie) == gie

\* the return from the __interrupt() function sets GIE again
Retfie(gie) == 1

\* One statement of ISR per step.
ISR ==
    /\ isr # "idle"
    /\ CASE isr = "L322" ->
              /\ isr' = IF TMR2IF = 1 THEN "L324" ELSE "ret"
              /\ UNCHANGED <<clockVars, TMR2IF, GIE>>
         [] isr = "L324" ->
              /\ TMR2IF' = 0 /\ isr' = "L326"
              /\ UNCHANGED <<clockVars, GIE>>
         [] isr = "L326" ->
              /\ seconds' = UInc(seconds) /\ isr' = "L327"
              /\ UNCHANGED <<minutes, hours, TMR2IF, GIE>>
         [] isr = "L327" ->
              /\ isr' = IF SecondsWrap(seconds) THEN "L329" ELSE "ret"
              /\ UNCHANGED <<clockVars, TMR2IF, GIE>>
         [] isr = "L329" ->
              /\ seconds' = 0 /\ isr' = "L330"
              /\ UNCHANGED <<minutes, hours, TMR2IF, GIE>>
         [] isr = "L330" ->
              /\ minutes' = UInc(minutes) /\ isr' = "L332"
              /\ UNCHANGED <<seconds, hours, TMR2IF, GIE>>
         [] isr = "L332" ->
              /\ isr' = IF MinutesWrap(minutes) THEN "L334" ELSE "ret"
              /\ UNCHANGED <<clockVars, TMR2IF, GIE>>
         [] isr = "L334" ->
              /\ minutes' = 0 /\ isr' = "L335"
              /\ UNCHANGED <<seconds, hours, TMR2IF, GIE>>
         [] isr = "L335" ->
              /\ hours' = UInc(hours) /\ isr' = "L336"
              /\ UNCHANGED <<seconds, minutes, TMR2IF, GIE>>
         [] isr = "L336" ->
              /\ isr' = IF HoursWrap(hours) THEN "L337" ELSE "ret"
              /\ UNCHANGED <<clockVars, TMR2IF, GIE>>
         [] isr = "L337" ->
              /\ hours' = 0 /\ isr' = "ret"
              /\ UNCHANGED <<seconds, minutes, TMR2IF, GIE>>
         [] isr = "ret" ->
              /\ GIE' = Retfie(GIE) /\ isr' = "idle"
              /\ UNCHANGED <<clockVars, TMR2IF>>
    \* the clock value the main program can see once the handler has returned
    /\ seenHM' = IF isr = "ret" /\ ReadingTime
                 THEN seenHM \cup {<<hours, minutes>>} ELSE seenHM
    /\ UNCHANGED <<TMR2ON, TMR2IE, PEIE, ticks, mainVars, busVars, devVars, call>>

\* The main program runs only outside the handler; MainRuns also says that
\* no LCD_Command/LCD_Data call is in progress.
MainRuns == isr = "idle" /\ lpc = "idle"

(***************************************************************************)
(* LCD driver: what each driver function sends, as <<"cmd" or "data",      *)
(* byte>> pairs in the order of its LCD_Command/LCD_Data calls.            *)
(***************************************************************************)
\* (variant: "Street Light Controller" on one row)
StrStreetLight_Long ==
    <<83, 116, 114, 101, 101, 116, 32, 76, 105, 103, 104, 116, 32,
      67, 111, 110, 116, 114, 111, 108, 108, 101, 114>>
StrStreetLight == <<83, 116, 114, 101, 101, 116, 32, 76, 105, 103, 104, 116>>
StrController  == <<67, 111, 110, 116, 114, 111, 108, 108, 101, 114>>
StrNight   == <<78, 105, 103, 104, 116, 32>>       \* "Night "
StrDay     == <<68, 97, 121, 32, 32, 32>>          \* "Day   "
StrM       == <<77, 58>>                           \* "M:"
StrYes     == <<89, 69, 83, 32>>                   \* "YES "
\* (variant: "NO" without its padding)
StrNo_Unpadded == <<78, 79>>
StrNo      == <<78, 79, 32, 32>>                   \* "NO  "
StrLight   == <<76, 105, 103, 104, 116, 58>>       \* "Light:"
StrOn      == <<79, 78, 32, 32, 32>>               \* "ON   "
StrOff     == <<79, 70, 70, 32, 32>>               \* "OFF  "
StrSunrise == <<83, 117, 110, 114, 105, 115, 101, 58>>   \* "Sunrise:"
StrSunset  == <<83, 117, 110, 115, 101, 116, 32, 58>>    \* "Sunset :"
Char0      == 48                                   \* '0'
CharColon  == 58                                   \* ':'

LCD_Command(cmd) == << <<"cmd", UChar(cmd)>> >>
LCD_Data(dat)    == << <<"data", UChar(dat)>> >>
LCD_String(str)  == [i \in 1..Len(str) |-> LCD_Data(str[i])[1]]
LCD_Clear        == LCD_Command(1)
\* (variant: the column is added without the - 1)
LCD_SetCursor_NoOffset(row, col) ==
    LCD_Command((IF row = 1 THEN 128 ELSE 192) + col)

\* the argument is computed as an int and converted to unsigned char
LCD_SetCursor(row, col) ==
    LCD_Command((IF row = 1 THEN 128 ELSE 192) + col - 1)

LCD_InitCommands ==
    LCD_Command(2) \o LCD_Command(40) \o LCD_Command(12) \o LCD_Command(6)
        \o LCD_Command(1)

\* (variant: Update_Display without its second LCD_SetCursor)
Update_Display_OneCursor(n, m, level) ==
    LCD_SetCursor(1, 1)
        \o LCD_String(IF n # 0 THEN StrNight ELSE StrDay)
        \o LCD_String(StrM)
        \o LCD_String(IF m # 0 THEN StrYes ELSE StrNo)
        \o LCD_String(StrLight)
        \o LCD_String(IF level # 0 THEN StrOn ELSE StrOff)

Update_Display(n, m, level) ==
    LCD_SetCursor(1, 1)
        \o LCD_String(IF n # 0 THEN StrNight ELSE StrDay)
        \o LCD_String(StrM)
        \o LCD_String(IF m # 0 THEN StrYes ELSE StrNo)
        \o LCD_SetCursor(2, 1)
        \o LCD_String(StrLight)
        \o LCD_String(IF level # 0 THEN StrOn ELSE StrOff)

\* (variant: the tens digit of the hour is printed only when it is not 0)
LCD_Print_Time_Unpadded(h, m) ==
    (IF h >= 10 THEN LCD_Data((h \div 10) + Char0) ELSE <<>>)
        \o LCD_Data((h % 10) + Char0)
        \o LCD_Data(CharColon)
        \o LCD_Data((m \div 10) + Char0) \o LCD_Data((m % 10) + Char0)

\* Update_Display of the basic variant (src/main.c): the text of row 2 is
\* chosen by level == 2
Update_Display_main_c(n, m, level) ==
    LCD_SetCursor(1, 1)
        \o LCD_String(IF n # 0 THEN StrNight ELSE StrDay)
        \o LCD_String(StrM)
        \o LCD_String(IF m # 0 THEN StrYes ELSE StrNo)
        \o LCD_SetCursor(2, 1)
        \o LCD_String(StrLight)
        \o (IF level = 2 THEN LCD_String(StrOn) ELSE LCD_String(StrOff))

LCD_Print_Time(h, m) ==
    LCD_Data((h \div 10) + Char0) \o LCD_Data((h % 10) + Char0)
        \o LCD_Data(CharColon)
        \o LCD_Data((m \div 10) + Char0) \o LCD_Data((m % 10) + Char0)

\* Show_Sunrise_Sunset up to its dwell delay
Show_Sunrise_Sunset ==
    LCD_Clear
        \o LCD_SetCursor(1, 1) \o LCD_String(StrSunrise)
        \o LCD_Print_Time(sunrise_h, sunrise_m)
        \o LCD_SetCursor(2, 1) \o LCD_String(StrSunset)
        \o LCD_Print_Time(sunset_h, sunset_m)

(***************************************************************************)
(* The display module on the bus: a two-line character display with 16     *)
(* visible columns, as far as the driver's commands use it.  Line 1 is at  *)
(* addresses 0x00.., line 2 at 0x40.. (the 0x80 and 0xC0 of LCD_SetCursor  *)
(* are the set-address instruction with these bases); LCD_Init selects     *)
(* two lines (0x28), display on (0x0C) and address increment without       *)
(* display shift (0x06).  The display takes every byte as two nibbles, as  *)
(* the driver sends them.  An instruction outside those below is not       *)
(* modelled and stops the evaluation.                                      *)
(***************************************************************************)
Blank     == 32        \* ' ', the content of a cleared cell
Columns   == 16        \* visible columns of a line
Line2Base == 64        \* 0xC0 - 0x80, the address of line 2, column 1
LineCells == 40        \* cells of a line in two-line mode

\* the display memory is kept as its two lines of cells; address a is cell
\* LineIndex(a) of line LineOf(a)
DDAddr == (0..(LineCells - 1)) \cup (Line2Base..(Line2Base + LineCells - 1))
LineOf(a) == IF a < Line2Base THEN 1 ELSE 2
LineIndex(a) == (a % Line2Base) + 1
Cell(mem, a) == mem[LineOf(a)][LineIndex(a)]
DisplayReset == [line \in 1..2 |-> [i \in 1..LineCells |-> Blank]]

\* the address counter is <<"DD" or "CG", address>>
NextAddr(a) ==
    IF a[1] = "CG"
    THEN <<"CG", (a[2] + 1) % 64>>
    ELSE <<"DD", IF a[2] = LineCells - 1 THEN Line2Base
                 ELSE IF a[2] = Line2Base + LineCells - 1 THEN 0
                 ELSE (a[2] + 1) % 128>>

\* an instruction (register select 0): <<memory, address counter>> after it
Display_Command(mem, a, cmd) ==
    CASE cmd = 1             -> <<DisplayReset, <<"DD", 0>>>>    \* clear display
      [] cmd \in {2, 3}      -> <<mem, <<"DD", 0>>>>             \* return home
      [] cmd \in {6, 12, 40} -> <<mem, a>>                       \* modes of LCD_Init
      [] cmd \in 64..127     -> <<mem, <<"CG", cmd - 64>>>>      \* character generator
      [] cmd \in 128..255    -> <<mem, <<"DD", cmd - 128>>>>     \* set display address

\* a data byte (register select 1) goes to the addressed cell and the
\* address counter advances
Display_Write(mem, a, dat) ==
    << IF a[1] = "DD" /\ a[2] \in DDAddr
       THEN [mem EXCEPT ![LineOf(a[2])][LineIndex(a[2])] = dat]
       ELSE mem,
       NextAddr(a) >>

Display_Exec(mem, a, rs, byte) ==
    IF rs = 0 THEN Display_Command(mem, a, byte) ELSE Display_Write(mem, a, byte)

\* the address of a visible cell, and the two visible rows
CellAddr(row, col) == (IF row = 1 THEN 0 ELSE Line2Base) + col - 1
VisibleAddr == (0..(Columns - 1)) \cup (Line2Base..(Line2Base + Columns - 1))
Screen(mem) ==
    [row \in 1..2 |-> [col \in 1..Columns |-> Cell(mem, CellAddr(row, col))]]

(***************************************************************************)
(* LCD_Command / LCD_Data, one statement per step.  lpc names the next     *)
(* statement by its line in LCD_Command; LCD_Data differs only in the      *)
(* value written to LCD_RS.                                                *)
(***************************************************************************)
BitOf(b, k) == (b \div (2 ^ k)) % 2

\* the statement at lpc writes data pin DataPin[lpc] with bit DataBit[lpc]
DataLines == {"L458", "L459", "L460", "L461", "L464", "L465", "L466", "L467"}
DataPin(l) ==
    CASE l \in {"L458", "L464"} -> 4
      [] l \in {"L459", "L465"} -> 5
      [] l \in {"L460", "L466"} -> 6
      [] l \in {"L461", "L467"} -> 7
DataBit(l) ==
    CASE l = "L458" -> 4 [] l = "L459" -> 5 [] l = "L460" -> 6 [] l = "L461" -> 7
      [] l = "L464" -> 0 [] l = "L465" -> 1 [] l = "L466" -> 2 [] l = "L467" -> 3
AfterLine(l) ==
    CASE l = "L458" -> "L459" [] l = "L459" -> "L460" [] l = "L460" -> "L461"
      [] l = "L461" -> "L462" [] l = "L462" -> "L462d" [] l = "L462d" -> "L464"
      [] l = "L464" -> "L465" [] l = "L465" -> "L466" [] l = "L466" -> "L467"
      [] l = "L467" -> "L468" [] l = "L468" -> "L468d" [] l = "L468d" -> "L470"

\* (variant: LCD_Data leaves the register-select line low)
RegisterSelect_Zero(kind) == 0

\* the first statement: LCD_RS = 0 in LCD_Command, LCD_RS = 1 in LCD_Data
RegisterSelect(kind) == IF kind = "cmd" THEN 0 ELSE 1

\* the nibble on the data pins, D7 the most significant
PinNibble == LCD_D[4] + 2 * LCD_D[5] + 4 * LCD_D[6] + 8 * LCD_D[7]

\* entry of LCD_Command/LCD_Data with the next byte of the current call and
\* its first statement, the write of LCD_RS
LCD_Enter ==
    /\ isr = "idle" /\ pc = "tx" /\ lpc = "idle" /\ txq # <<>>
    /\ arg' = Head(txq)
    /\ txq' = Tail(txq)
    /\ LCD_RS' = RegisterSelect(Head(txq)[1])
    /\ rx' = <<>>
    /\ lpc' = "L458"
    /\ UNCHANGED <<clockVars, intrVars, pc, ret, localVars, recVars, RC1,
                   initVars, cycVars, seenHM, LCD_EN, LCD_D, devVars, call>>

LCD_WriteData ==
    /\ isr = "idle" /\ lpc \in DataLines
    /\ LCD_D' = [LCD_D EXCEPT ![DataPin(lpc)] = BitOf(arg[2], DataBit(lpc))]
    /\ lpc' = AfterLine(lpc)
    /\ UNCHANGED <<clockVars, intrVars, mainVars, seenHM, LCD_RS, LCD_EN, arg,
                   rx, devVars, call>>

LCD_StrobeHigh ==
    /\ isr = "idle" /\ lpc \in {"L462", "L468"}
    /\ LCD_EN' = 1
    /\ lpc' = AfterLine(lpc)
    /\ UNCHANGED <<clockVars, intrVars, mainVars, seenHM, LCD_RS, LCD_D, arg,
                   rx, devVars, call>>

\* after __delay_us(1) the strobe falls and the display latches the lines;
\* with the second nibble an attached display has the byte and executes it
LCD_StrobeLow(attached) ==
    /\ isr = "idle" /\ lpc \in {"L462d", "L468d"}
    /\ LCD_EN' = 0
    /\ rx' = Append(rx, <<LCD_RS, PinNibble>>)
    /\ lpc' = AfterLine(lpc)
    /\ IF attached /\ lpc = "L468d"
       THEN LET d == Display_Exec(ddram, ac, LCD_RS, 16 * rx[1][2] + PinNibble)
            IN  ddram' = d[1] /\ ac' = d[2]
       ELSE UNCHANGED devVars
    /\ UNCHANGED <<clockVars, intrVars, mainVars, seenHM, LCD_RS, LCD_D, arg, call>>

\* __delay_ms(2), then the return: to the next byte of the call, or to the
\* caller's next statement
LCD_Settle ==
    /\ isr = "idle" /\ lpc = "L470"
    /\ lpc' = "idle"
    /\ pc' = IF txq = <<>> THEN ret ELSE pc
    /\ UNCHANGED <<clockVars, intrVars, ret, txq, localVars, recVars, RC1,
                   initVars, cycVars, seenHM, LCD_RS, LCD_EN, LCD_D, arg, rx,
                   devVars, call>>

LCD_Transfer(attached) ==
    \/ LCD_Enter
    \/ LCD_WriteData
    \/ LCD_StrobeHigh
    \/ LCD_StrobeLow(attached)
    \/ LCD_Settle

\* a display call by the main program: its bytes are sent one by one and
\* the program continues at `next`
Call(bytes, next) ==
    /\ txq' = bytes
    /\ ret' = next
    /\ pc' = "tx"

(***************************************************************************)
(* System_Init.                                                            *)
(***************************************************************************)
\* (variant: System_Init without its LCD_Init call)
SystemInitNext_NoLcd(step) ==
    CASE step = "Port_Init"      -> "Timer2_Init"
      [] step = "Timer2_Init"    -> "Interrupt_Init"
      [] step = "Interrupt_Init" -> "L352"
      [] step = "LCD_Init"       -> "L352"

\* the order of the calls in System_Init, and the statement after it
SystemInitNext(step) ==
    CASE step = "Port_Init"      -> "Timer2_Init"
      [] step = "Timer2_Init"    -> "Interrupt_Init"
      [] step = "Interrupt_Init" -> "LCD_Init"
      [] step = "LCD_Init"       -> "L352"

Port_Init ==
    /\ MainRuns /\ pc = "Port_Init"
    /\ RC1' = 0
    /\ LCD_RS' = 0 /\ LCD_EN' = 0 /\ LCD_D' = [i \in 4..7 |-> 0]
    /\ pc' = SystemInitNext("Port_Init")
    /\ UNCHANGED <<clockVars, intrVars, ret, txq, localVars, recVars,
                   initVars, cycVars, seenHM, lpc, arg, rx, devVars, call>>

Timer2_Init ==
    /\ MainRuns /\ pc = "Timer2_Init"
    /\ TMR2ON' = 1
    /\ pc' = SystemInitNext("Timer2_Init")
    /\ UNCHANGED <<clockVars, TMR2IE, PEIE, GIE, TMR2IF, isr, ticks, ret, txq,
                   localVars, recVars, RC1, initVars, cycVars, seenHM, busVars, devVars, call>>

Interrupt_Init ==
    /\ MainRuns /\ pc = "Interrupt_Init"
    /\ TMR2IE' = 1 /\ PEIE' = 1 /\ GIE' = 1
    /\ pc' = SystemInitNext("Interrupt_Init")
    /\ UNCHANGED <<clockVars, TMR2ON, TMR2IF, isr, ticks, ret, txq,
                   localVars, recVars, RC1, initVars, cycVars, seenHM, busVars, devVars, call>>

\* __delay_ms(20) and the five commands of the 4-bit entry sequence
LCD_Init ==
    /\ MainRuns /\ pc = "LCD_Init"
    /\ Call(LCD_InitCommands, "LCD_Init_ret")
    /\ initRuns' = initRuns + 1
    /\ UNCHANGED <<clockVars, intrVars, localVars, recVars, RC1,
                   initDone, early, cycVars, seenHM, busVars, devVars, call>>

LCD_Init_Return ==
    /\ MainRuns /\ pc = "LCD_Init_ret"
    /\ initDone' = TRUE
    /\ pc' = SystemInitNext("LCD_Init")
    /\ UNCHANGED <<clockVars, intrVars, ret, txq, localVars, recVars, RC1,
                   initRuns, early, cycVars, seenHM, busVars, devVars, call>>

System_Init ==
    \/ Port_Init
    \/ Timer2_Init
    \/ Interrupt_Init
    \/ LCD_Init
    \/ LCD_Init_Return

(***************************************************************************)
(* main: the splash screen, the latch initialisation and the polling loop. *)
(***************************************************************************)
\* a display call other than LCD_Init
DisplayCall(bytes, next) ==
    /\ MainRuns
    /\ Call(bytes, next)
    /\ early' = (early \/ ~initDone)
    /\ UNCHANGED <<clockVars, intrVars, localVars, recVars, RC1,
                   initRuns, initDone, cycVars, seenHM, busVars, devVars, call>>

\* a busy-wait of the main program (__delay_ms)
Delay(next) ==
    /\ MainRuns
    /\ pc' = next
    /\ UNCHANGED <<clockVars, intrVars, ret, txq, localVars, recVars, RC1,
                   initVars, seenHM, busVars, devVars, call>>

L352_Clear     == pc = "L352" /\ DisplayCall(LCD_Clear, "L353")
L353_String    == pc = "L353" /\ DisplayCall(LCD_String(StrStreetLight), "L354")
L354_SetCursor == pc = "L354" /\ DisplayCall(LCD_SetCursor(2, 1), "L355")
L355_String    == pc = "L355" /\ DisplayCall(LCD_String(StrController), "L356")
\* __delay_ms(2000); a run may have it last its first `hold` ticks
L356_Delay(hold) ==
    /\ pc = "L356" /\ ticks >= hold
    /\ Delay("L357")
    /\ UNCHANGED cycVars
L357_Clear     == pc = "L357" /\ DisplayCall(LCD_Clear, "L359")

\* the values a sensor line can show at a read
LDRLine == Bit
PIRLine == Bit

\* (variant: the latch keeps its declared default)
LatchInit_Default(sample) == 0

\* prevLDRState = PORTBbits.RB0
LatchInit(sample) == sample

L359_Latch ==
    /\ MainRuns /\ pc = "L359"
    /\ \E v \in LDRLine : prevLDRState' = LatchInit(v) /\ ldr0' = v
    /\ pc' = "L363"
    /\ UNCHANGED <<clockVars, intrVars, ret, txq, isNight, motion, brightness,
                   recVars, RC1, initVars, firstCycle, event, seenHM, busVars, devVars, call>>

\* isNight = PORTBbits.RB0
L363_ReadLDR ==
    /\ MainRuns /\ pc = "L363"
    /\ \E v \in LDRLine : isNight' = v
    /\ event' = "none"
    /\ pc' = "L364"
    /\ UNCHANGED <<clockVars, intrVars, ret, txq, motion, brightness,
                   prevLDRState, recVars, RC1, initVars, firstCycle, ldr0,
                   seenHM, busVars, devVars, call>>

\* motion = PORTDbits.RD2
L364_ReadPIR ==
    /\ MainRuns /\ pc = "L364"
    /\ \E v \in PIRLine : motion' = v
    /\ pc' = "L367"
    /\ UNCHANGED <<clockVars, intrVars, ret, txq, isNight, brightness,
                   prevLDRState, recVars, RC1, initVars, cycVars, seenHM,
                   busVars, devVars, call>>

\* (variants: the sunrise test with its operands swapped; the sunset test
\* without the latch)
IsSunrise_Swapped(prev, now) == prev = 0 /\ now = 1
IsSunset_NoLatch(prev, now)  == now = 1

IsSunrise(prev, now) == prev = 1 /\ now = 0
IsSunset(prev, now)  == prev = 0 /\ now = 1

\* (variant: the actuator line is written before the edge is handled)
L367_Edge_LightFirst ==
    /\ MainRuns /\ pc = "L367"
    /\ IF IsSunrise(prevLDRState, isNight)
       THEN pc' = "L369" /\ event' = "SUNRISE"
       ELSE IF IsSunset(prevLDRState, isNight)
            THEN pc' = "L375" /\ event' = "SUNSET"
            ELSE pc' = "L379" /\ event' = "none"
    /\ RC1' = (IF isNight = 0 THEN 0 ELSE IF motion # 0 THEN 1 ELSE 0)
    /\ UNCHANGED <<clockVars, intrVars, ret, txq, localVars, recVars,
                   initVars, firstCycle, ldr0, seenHM, busVars, devVars, call>>

\* the if / else-if on the latch and the sample
L367_Edge ==
    /\ MainRuns /\ pc = "L367"
    /\ IF IsSunrise(prevLDRState, isNight)
       THEN pc' = "L369" /\ event' = "SUNRISE"
       ELSE IF IsSunset(prevLDRState, isNight)
            THEN pc' = "L375" /\ event' = "SUNSET"
            ELSE pc' = "L379" /\ event' = "none"
    /\ UNCHANGED <<clockVars, intrVars, ret, txq, localVars, recVars, RC1,
                   initVars, firstCycle, ldr0, seenHM, busVars, devVars, call>>

\* sunrise_h = hours
L369_SunriseH ==
    /\ MainRuns /\ pc = "L369"
    /\ sunrise_h' = hours
    /\ seenHM' = {<<hours, minutes>>}
    /\ pc' = "L370"
    /\ UNCHANGED <<clockVars, intrVars, ret, txq, localVars, sunrise_m,
                   sunset_h, sunset_m, RC1, initVars, cycVars, busVars, devVars, call>>

\* sunrise_m = minutes; Show_Sunrise_Sunset is entered next
L370_SunriseM ==
    /\ MainRuns /\ pc = "L370"
    /\ sunrise_m' = minutes
    /\ pc' = "L535"
    /\ UNCHANGED <<clockVars, intrVars, ret, txq, localVars, sunrise_h,
                   sunset_h, sunset_m, RC1, initVars, cycVars, seenHM, busVars, devVars, call>>

\* sunset_h = hours
L375_SunsetH ==
    /\ MainRuns /\ pc = "L375"
    /\ sunset_h' = hours
    /\ seenHM' = {<<hours, minutes>>}
    /\ pc' = "L376"
    /\ UNCHANGED <<clockVars, intrVars, ret, txq, localVars, sunrise_h,
                   sunrise_m, sunset_m, RC1, initVars, cycVars, busVars, devVars, call>>

\* sunset_m = minutes; Show_Sunrise_Sunset is entered next
L376_SunsetM ==
    /\ MainRuns /\ pc = "L376"
    /\ sunset_m' = minutes
    /\ pc' = "L535"
    /\ UNCHANGED <<clockVars, intrVars, ret, txq, localVars, sunrise_h,
                   sunrise_m, sunset_h, RC1, initVars, cycVars, seenHM, busVars, devVars, call>>

\* Show_Sunrise_Sunset: the two rows, the dwell, the final clear
L535_Show  == pc = "L535" /\ DisplayCall(Show_Sunrise_Sunset, "L545")
L545_Dwell == pc = "L545" /\ Delay("L546") /\ UNCHANGED cycVars
L546_Clear == pc = "L546" /\ DisplayCall(LCD_Clear, "L379")

\* (variant: the latch is not updated)
LatchUpdate_Keep(prev, now) == prev

\* prevLDRState = isNight
LatchUpdate(prev, now) == now

L379_Latch ==
    /\ MainRuns /\ pc = "L379"
    /\ prevLDRState' = LatchUpdate(prevLDRState, isNight)
    /\ pc' = "L382"
    /\ UNCHANGED <<clockVars, intrVars, ret, txq, isNight, motion, brightness,
                   recVars, RC1, initVars, cycVars, seenHM, busVars, devVars, call>>

\* (variant: night mode without the motion test)
LightLine_NoMotion(n, m) == IF n = 0 THEN 0 ELSE 1

\* (variant: night without motion gives a dimmed level 1)
LightLevel_Dim(n, m) == IF n = 0 THEN 0 ELSE IF m # 0 THEN 2 ELSE 1

\* the light control if / else: the actuator line and the brightness code
LightLine(n, m)  == IF n = 0 THEN 0 ELSE IF m # 0 THEN 1 ELSE 0
LightLevel(n, m) == IF n = 0 THEN 0 ELSE IF m # 0 THEN 2 ELSE 0

\* the light control of the basic variant (src/main.c)
LightLine_main_c(n, m)  == IF n = 0 THEN 0 ELSE IF m # 0 THEN 1 ELSE 0
LightLevel_main_c(n, m) == IF n = 0 THEN 0 ELSE IF m # 0 THEN 2 ELSE 0

L382_Light ==
    /\ MainRuns /\ pc = "L382"
    /\ RC1' = LightLine(isNight, motion)
    /\ brightness' = LightLevel(isNight, motion)
    /\ pc' = "L401"
    /\ UNCHANGED <<clockVars, intrVars, ret, txq, isNight, motion,
                   prevLDRState, recVars, initVars, cycVars, seenHM, busVars, devVars, call>>

L401_Update ==
    /\ pc = "L401"
    /\ DisplayCall(Update_Display(isNight, motion, brightness), "L402")

\* __delay_ms(150), then the next iteration
L402_Idle ==
    /\ pc = "L402"
    /\ Delay("L363")
    /\ firstCycle' = FALSE
    /\ UNCHANGED <<event, ldr0>>

Main(hold) ==
    \/ L352_Clear
    \/ L353_String
    \/ L354_SetCursor
    \/ L355_String
    \/ L356_Delay(hold)
    \/ L357_Clear
    \/ L359_Latch
    \/ L363_ReadLDR
    \/ L364_ReadPIR
    \/ L367_Edge
    \/ L369_SunriseH
    \/ L370_SunriseM
    \/ L375_SunsetH
    \/ L376_SunsetM
    \/ L535_Show
    \/ L545_Dwell
    \/ L546_Clear
    \/ L379_Latch
    \/ L382_Light
    \/ L401_Update
    \/ L402_Idle

(***************************************************************************)
(* Power-on state.  The locals of main hold no value until lines 363, 364  *)
(* and 382-397 assign them, and no statement reads them before that; they  *)
(* start at 0 here.                                                        *)
(***************************************************************************)
Init ==
    /\ seconds = 0 /\ minutes = 0 /\ hours = BootHours
    /\ TMR2ON = 0 /\ TMR2IE = 0 /\ PEIE = 0 /\ GIE = 0 /\ TMR2IF = 0
    /\ isr = "idle" /\ ticks = 0
    /\ pc = "Port_Init" /\ ret = "none" /\ txq = <<>>
    /\ isNight = 0 /\ motion = 0 /\ brightness = 0
    /\ prevLDRState = 0
    /\ sunrise_h = 0 /\ sunrise_m = 0 /\ sunset_h = 0 /\ sunset_m = 0
    /\ RC1 = 0
    /\ LCD_RS = 0 /\ LCD_EN = 0 /\ LCD_D = [i \in 4..7 |-> 0]
    /\ lpc = "idle" /\ arg = <<"cmd", 0>> /\ rx = <<>>
    /\ firstCycle = TRUE /\ event = "none" /\ ldr0 = 0 /\ seenHM = {}
    /\ initRuns = 0 /\ initDone = FALSE /\ early = FALSE
    /\ ddram = DisplayReset /\ ac = <<"DD", 0>>
    /\ call = <<>>

(***************************************************************************)
(* The whole program, with the sensor lines free at every read.            *)
(***************************************************************************)
Next ==
    \/ TimerTick(MaxTicks, 0)
    \/ ISR
    \/ System_Init
    \/ LCD_Transfer(TRUE)
    \/ Main(0)

Spec == Init /\ [][Next]_vars

(***************************************************************************)
(* The clock alone: the timer is armed and only the handler runs (the main *)
(* program stays in the first delay of LCD_Init).                          *)
(***************************************************************************)
NextClock ==
    \/ Port_Init
    \/ Timer2_Init
    \/ Interrupt_Init
    \/ TimerTick(MaxTicksDay, 0)
    \/ ISR

SpecClock == Init /\ [][NextClock]_vars

(***************************************************************************)
(* The whole program around the first hour rollover: the splash delay      *)
(* lasts until 22:59:59 and the program runs freely from there.            *)
(***************************************************************************)
NextRTC ==
    \/ TimerTick(MaxTicksHour, SplashTicks)
    \/ ISR
    \/ System_Init
    \/ LCD_Transfer(TRUE)
    \/ Main(SplashTicks)

SpecRTC == Init /\ [][NextRTC]_vars

(***************************************************************************)
(* The driver alone: after Port_Init, LCD_Command and LCD_Data are called  *)
(* with every byte, one call after the other.  Only the bus is observed:   *)
(* the display's memory is left out (no display attached).                 *)
(***************************************************************************)
DriverCall ==
    /\ MainRuns /\ pc = SystemInitNext("Port_Init")
    /\ \E b \in 0..(UCharMod - 1) :
          \/ Call(LCD_Command(b), pc)
          \/ Call(LCD_Data(b), pc)
    /\ UNCHANGED <<clockVars, intrVars, localVars, recVars, RC1,
                   initVars, cycVars, seenHM, busVars, devVars, call>>

NextLcd ==
    \/ Port_Init
    \/ DriverCall
    \/ LCD_Transfer(FALSE)

SpecLcd == Init /\ [][NextLcd]_vars

(***************************************************************************)
(* LCD_SetCursor alone: after System_Init, LCD_SetCursor is called with    *)
(* every row and column of the bounds (or the command 0xC0 is sent         *)
(* directly), "Light:" is written as Update_Display writes it, and the     *)
(* display is cleared for the next call.                                   *)
(***************************************************************************)
HarnessCall(bytes, next) ==
    /\ MainRuns
    /\ Call(bytes, next)
    /\ UNCHANGED <<clockVars, intrVars, localVars, recVars, RC1,
                   initVars, cycVars, seenHM, busVars, devVars>>

CursorCall ==
    /\ pc = SystemInitNext("LCD_Init")
    /\ \E row \in 0..MaxRow, col \in 0..MaxCol :
          /\ HarnessCall(LCD_SetCursor(row, col), "LCD_SetCursor_ret")
          /\ call' = <<"LCD_SetCursor", row, col>>

DirectCall ==
    /\ pc = SystemInitNext("LCD_Init")
    /\ HarnessCall(LCD_Command(192), "LCD_SetCursor_ret")
    /\ call' = <<"LCD_Command", 192>>

CursorWrite ==
    /\ pc = "LCD_SetCursor_ret"
    /\ HarnessCall(LCD_String(StrLight), "LCD_String_ret")
    /\ UNCHANGED call

CursorClear ==
    /\ pc = "LCD_String_ret"
    /\ HarnessCall(LCD_Clear, SystemInitNext("LCD_Init"))
    /\ UNCHANGED call

NextCursor ==
    \/ System_Init
    \/ LCD_Transfer(TRUE)
    \/ CursorCall
    \/ DirectCall
    \/ CursorWrite
    \/ CursorClear

SpecCursor == Init /\ [][NextCursor]_vars

(***************************************************************************)
(* Update_Display alone: after System_Init it is called again and again    *)
(* with any sample and either brightness code of main (0 or 2).  The last  *)
(* field of `call` counts consecutive calls with the same arguments (up to *)
(* 2).                                                                     *)
(***************************************************************************)
LevelCodes == {0, 2}

RenderCall ==
    /\ pc \in {SystemInitNext("LCD_Init"), "Update_Display_ret"}
    /\ \E n \in Bit, m \in Bit, level \in LevelCodes :
          /\ HarnessCall(Update_Display(n, m, level), "Update_Display_ret")
          /\ call' = <<"Update_Display", n, m, level,
                       IF call # <<>> /\ SubSeq(call, 2, 4) = <<n, m, level>>
                       THEN 2 ELSE 1>>

NextRender ==
    \/ System_Init
    \/ LCD_Transfer(TRUE)
    \/ RenderCall

SpecRender == Init /\ [][NextRender]_vars

(***************************************************************************)
(* The first edge of a run at any time of day: when the splash screen has  *)
(* been cleared, time has passed to hours:minutes:00, the latch holds one  *)
(* sensor value and the first sample of the loop is the other one (no      *)
(* motion); the cycle then runs from its edge test to its idle delay with  *)
(* no further tick.                                                        *)
(***************************************************************************)
EdgeAt ==
    /\ MainRuns /\ pc = "L359"
    /\ \E h \in 0..MaxHour, m \in 0..MaxMinute :
          hours' = h /\ minutes' = m /\ seconds' = 0
    /\ \E v \in LDRLine :
          /\ prevLDRState' = LatchInit(1 - v) /\ ldr0' = 1 - v
          /\ isNight' = v
    /\ motion' = 0
    /\ event' = "none"
    /\ pc' = "L367"
    /\ UNCHANGED <<intrVars, ret, txq, brightness, recVars, RC1, initVars,
                   firstCycle, seenHM, busVars, devVars, call>>

NextOverlay ==
    \/ System_Init
    \/ LCD_Transfer(TRUE)
    \/ L352_Clear
    \/ L353_String
    \/ L354_SetCursor
    \/ L355_String
    \/ L356_Delay(0)
    \/ L357_Clear
    \/ EdgeAt
    \/ L367_Edge
    \/ L369_SunriseH
    \/ L370_SunriseM
    \/ L375_SunsetH
    \/ L376_SunsetM
    \/ L535_Show
    \/ L545_Dwell
    \/ L546_Clear
    \/ L379_Latch
    \/ L382_Light
    \/ L401_Update
    \/ L402_Idle

SpecOverlay == Init /\ [][NextOverlay]_vars

(***************************************************************************)
(* C1: n invocations of the tick handler after the clock read 00:00:00     *)
(* leave it at (floor(n/3600) mod 24, floor(n/60) mod 60, n mod 60); in    *)
(* particular 86,400 invocations return it to 00:00:00.                    *)
(***************************************************************************)
TicksToMidnight == (HourPerDay - BootHours) * MinPerHour * SecPerMin

C1_TickArithmetic ==
    (isr = "idle" /\ ticks >= TicksToMidnight) =>
        LET n == ticks - TicksToMidnight
        IN  /\ hours   = (n \div 3600) % 24
            /\ minutes = (n \div 60) % 60
            /\ seconds = n % 60

C1_Witness ==
    /\ isr = "idle"
    /\ ticks = TicksToMidnight + 86400
    /\ hours = 0 /\ minutes = 0 /\ seconds = 0

(***************************************************************************)
(* C2: the (hours, minutes) pair the main cycle records as a sunrise or    *)
(* sunset timestamp is the clock's (hours, minutes) at one single instant  *)
(* between the start and the end of its read, never a mix of two instants. *)
(***************************************************************************)
C2_TornFreeTimestamp ==
    pc = "L535" =>
        /\ event = "SUNRISE" => <<sunrise_h, sunrise_m>> \in seenHM
        /\ event = "SUNSET"  => <<sunset_h, sunset_m>> \in seenHM

(***************************************************************************)
(* C3: outside the tick handler the clock is a valid triple (hours 0..23,  *)
(* minutes 0..59, seconds 0..59), starting from 22:00:00; the values 60    *)
(* and 24 occur only inside the handler.                                   *)
(***************************************************************************)
C3_ValidClock ==
    /\ ticks = 0 => (hours = 22 /\ minutes = 0 /\ seconds = 0)
    /\ isr = "idle" =>
          (hours \in 0..23 /\ minutes \in 0..59 /\ seconds \in 0..59)

C3_Witness ==
    /\ isr = "L336" /\ hours = 24 /\ minutes = 0 /\ seconds = 0

(***************************************************************************)
(* Positions of the main program used by the properties below.             *)
(***************************************************************************)
\* the bytes of the display call that returns to r are being sent
Sending(r) == pc = "tx" /\ ret = r
\* inside Show_Sunrise_Sunset
InOverlay == pc \in {"L535", "L545", "L546"} \/ Sending("L545") \/ Sending("L379")
\* after the light control of a cycle, before the next sample
AfterLight == pc \in {"L401", "L402"} \/ Sending("L402")
\* after the edge test of a cycle, its sample still in isNight
EdgeDecided ==
    \/ pc \in {"L369", "L370", "L375", "L376", "L379", "L382"}
    \/ InOverlay
    \/ AfterLight

(***************************************************************************)
(* C4: the actuator line and the brightness code written in a cycle follow *)
(* the table on that cycle's sample alone: day gives OFF (line low), night *)
(* without motion gives OFF, night with motion gives FULL (line high); the *)
(* line is high exactly when the decision is FULL.                         *)
(***************************************************************************)
C4_DecisionTable ==
    AfterLight =>
        /\ isNight = 0 => (RC1 = 0 /\ brightness = 0)
        /\ (isNight = 1 /\ motion = 0) => (RC1 = 0 /\ brightness = 0)
        /\ (isNight = 1 /\ motion = 1) => (RC1 = 1 /\ brightness = 2)
        /\ RC1 = 1 <=> brightness = 2

C4_Witness ==
    /\ pc = "L401" /\ ~firstCycle
    /\ isNight = 1 /\ motion = 1 /\ RC1 = 1 /\ brightness = 2

(***************************************************************************)
(* C5: a cycle takes the sunrise branch exactly when the latch is NIGHT    *)
(* and the sample is DAY, the sunset branch exactly when the latch is DAY  *)
(* and the sample is NIGHT, and neither when the sample equals the latch.  *)
(***************************************************************************)
C5_EdgeRule ==
    /\ pc \in {"L369", "L370"} =>
          (prevLDRState = 1 /\ isNight = 0 /\ event = "SUNRISE")
    /\ pc \in {"L375", "L376"} =>
          (prevLDRState = 0 /\ isNight = 1 /\ event = "SUNSET")
    /\ InOverlay => event # "none"
    /\ (InOverlay \/ pc = "L379") =>
          /\ event = "SUNRISE" <=> (prevLDRState = 1 /\ isNight = 0)
          /\ event = "SUNSET"  <=> (prevLDRState = 0 /\ isNight = 1)
          /\ event = "none"    <=> prevLDRState = isNight

C5_Witness ==
    /\ pc = "L379" /\ ~firstCycle
    /\ event = "SUNSET" /\ prevLDRState = 0 /\ isNight = 1
    /\ sunrise_h = 22

(***************************************************************************)
(* C6 as stated: the first cycle of the main loop never fires a sunrise or *)
(* sunset event.                                                           *)
(***************************************************************************)
C6_FirstCycleSilent ==
    firstCycle => event = "none"

(***************************************************************************)
(* C6 as amended: the latch is initialised from the sensor value read at   *)
(* line 359, and the first cycle fires an event exactly when its own       *)
(* sample differs from that value.                                         *)
(***************************************************************************)
C6_FirstCycleEdge ==
    /\ (firstCycle /\ pc \in {"L363", "L364", "L367"}) => prevLDRState = ldr0
    /\ (firstCycle /\ EdgeDecided) => (event # "none" <=> isNight # ldr0)

C6_Witness ==
    /\ firstCycle /\ pc = "L379"
    /\ ldr0 = 1 /\ isNight = 1 /\ event = "none"

(***************************************************************************)
(* C7: when a cycle after the first takes its sample, the latch equals the *)
(* isNight value sampled in the preceding cycle; the latch is updated in   *)
(* every cycle, also in one that showed the overlay.                       *)
(***************************************************************************)
C7_LatchIsPreviousSample ==
    /\ (pc = "L363" /\ ~firstCycle) => prevLDRState = isNight
    /\ (pc = "L382" \/ AfterLight) => prevLDRState = isNight

C7_Witness ==
    /\ pc = "L363" /\ ~firstCycle
    /\ event = "SUNRISE" /\ prevLDRState = 0 /\ isNight = 0

(***************************************************************************)
(* C8: the sunrise record changes only in a cycle that detected a          *)
(* NIGHT-to-DAY edge, the sunset record only in one that detected a        *)
(* DAY-to-NIGHT edge; such a step leaves the other record unchanged, and   *)
(* no step of the tick handler changes either.                             *)
(***************************************************************************)
C8_RecordsChangeOnEdge ==
    [][ /\ <<sunrise_h, sunrise_m>>' # <<sunrise_h, sunrise_m>> =>
              /\ pc \in {"L369", "L370"}
              /\ prevLDRState = 1 /\ isNight = 0
              /\ UNCHANGED <<sunset_h, sunset_m>>
        /\ <<sunset_h, sunset_m>>' # <<sunset_h, sunset_m>> =>
              /\ pc \in {"L375", "L376"}
              /\ prevLDRState = 0 /\ isNight = 1
              /\ UNCHANGED <<sunrise_h, sunrise_m>>
        /\ (isr # "idle" \/ isr' # "idle") => UNCHANGED recVars
      ]_vars

C8_Witness ==
    /\ <<sunrise_h, sunrise_m>> = <<23, 0>>
    /\ <<sunset_h, sunset_m>> = <<22, 59>>

(***************************************************************************)
(* C9: a byte is transferred as exactly two strobe pulses: the register-   *)
(* select line is set first (0 for a command, 1 for data) and holds to the *)
(* end; the data lines carry bits 7..4 during the first pulse and bits     *)
(* 3..0 during the second, and do not change while the strobe is high; the *)
(* settle delay follows the second pulse.                                  *)
(***************************************************************************)
C9_State ==
    /\ lpc # "idle" => LCD_RS = (IF arg[1] = "cmd" THEN 0 ELSE 1)
    /\ LCD_EN = 1 =>
          \/ lpc = "L462d" /\ PinNibble = arg[2] \div 16 /\ rx = <<>>
          \/ lpc = "L468d" /\ PinNibble = arg[2] % 16 /\ Len(rx) = 1
    /\ Len(rx) <= 2
    /\ lpc = "L470" =>
          /\ LCD_EN = 0
          /\ rx = << <<LCD_RS, arg[2] \div 16>>, <<LCD_RS, arg[2] % 16>> >>

C9_Step ==
    /\ lpc # "idle" => LCD_RS' = LCD_RS
    /\ LCD_EN = 1 => LCD_D' = LCD_D
    /\ LCD_EN' # LCD_EN => lpc \in {"L462", "L462d", "L468", "L468d"}

\* C9: every state of a transfer satisfies C9_State and every step C9_Step
C9_TwoPulseTransfer == [](C9_State) /\ [][C9_Step]_vars

C9_Witness ==
    /\ lpc = "L470" /\ arg = <<"data", 165>>
    /\ rx = << <<1, 10>>, <<1, 5>> >>

(***************************************************************************)
(* C10: LCD_Init runs exactly once and has completed before any other      *)
(* display operation of the main program is invoked; until then only the   *)
(* commands of the initialisation sequence are on the bus.                 *)
(***************************************************************************)
BeforeMainBody ==
    \/ pc \in {"Port_Init", "Timer2_Init", "Interrupt_Init", "LCD_Init",
               "LCD_Init_ret"}
    \/ Sending("LCD_Init_ret")

C10_InitFirstAndOnce ==
    /\ ~early
    /\ initRuns <= 1
    /\ initDone => initRuns = 1
    /\ ~BeforeMainBody => initDone
    /\ (~initDone /\ lpc # "idle") => (ret = "LCD_Init_ret" /\ arg[1] = "cmd")

C10_Witness ==
    /\ pc = "L402" /\ initDone /\ initRuns = 1 /\ ~early

(***************************************************************************)
(* Calls of LCD_SetCursor in the cursor specification.                     *)
(***************************************************************************)
CursorCalled == call # <<>> /\ call[1] = "LCD_SetCursor"
CursorInRange ==
    CursorCalled /\ call[2] \in {1, 2} /\ call[3] \in 1..Columns
\* "Light:" at line 2, column 1 of a cleared display
LightAtLine2 ==
    [line \in 1..2 |->
        [i \in 1..LineCells |->
            IF line = 2 /\ i <= Len(StrLight) THEN StrLight[i] ELSE Blank]]

(***************************************************************************)
(* C11: LCD_SetCursor(row, col) with col outside 1..16 or row outside      *)
(* {1, 2} fails as a precondition violation: it issues no cursor command   *)
(* and leaves the display's address counter where it was (address 0 after  *)
(* the clear that precedes every call here).                               *)
(***************************************************************************)
C11_OutOfRangeRejected ==
    (CursorCalled /\ ~CursorInRange /\ pc \in {"tx", "LCD_SetCursor_ret"}
                  /\ ret = "LCD_SetCursor_ret") =>
        /\ txq = <<>> /\ lpc = "idle"
        /\ ac = <<"DD", 0>>

(***************************************************************************)
(* C12: for row in {1, 2} and col in 1..16, LCD_SetCursor(row, col) issues *)
(* exactly one command, the byte base + col - 1 with base 0x80 for row 1   *)
(* and 0xC0 for row 2, which is below 256; LCD_SetCursor(2, 1) followed by *)
(* the string "Light:" fills the same cells as the command 0xC0 followed   *)
(* by that string.                                                         *)
(***************************************************************************)
C12_CursorByte ==
    /\ CursorInRange =>
          LET byte == (IF call[2] = 1 THEN 128 ELSE 192) + call[3] - 1
          IN  /\ byte < 256
              /\ (Sending("LCD_SetCursor_ret") /\ lpc = "idle") =>
                    txq = << <<"cmd", byte>> >>
              /\ (Sending("LCD_SetCursor_ret") /\ lpc # "idle") =>
                    (txq = <<>> /\ arg = <<"cmd", byte>>)
              /\ pc = "LCD_SetCursor_ret" =>
                    /\ rx = << <<0, byte \div 16>>, <<0, byte % 16>> >>
                    /\ ac = <<"DD", CellAddr(call[2], call[3])>>
                    /\ ddram = DisplayReset
    /\ (pc = "LCD_String_ret"
            /\ call \in {<<"LCD_SetCursor", 2, 1>>, <<"LCD_Command", 192>>}) =>
          (ddram = LightAtLine2 /\ ac = <<"DD", 70>>)

C12_Witness ==
    /\ pc = "LCD_String_ret" /\ call = <<"LCD_SetCursor", 2, 1>>
    /\ Cell(ddram, 64) = 76 /\ Cell(ddram, 69) = 58 /\ ac = <<"DD", 70>>

(***************************************************************************)
(* The status frame: two rows of 16 characters, the status text of each    *)
(* row followed by spaces.                                                 *)
(***************************************************************************)
Pad(str) == str \o [i \in 1..(Columns - Len(str)) |-> Blank]
StatusFrame(n, m, level) ==
    << Pad((IF n = 1 THEN StrNight ELSE StrDay) \o StrM
               \o (IF m = 1 THEN StrYes ELSE StrNo)),
       Pad(StrLight \o (IF level = 2 THEN StrOn ELSE StrOff)) >>

(***************************************************************************)
(* C13: when Update_Display has completed, the visible screen is exactly   *)
(* the status frame of its arguments (12 characters and 4 spaces on row 1, *)
(* 11 characters and 5 spaces on row 2), whatever was shown before: the    *)
(* splash, the sunrise/sunset screen or an earlier status frame.           *)
(***************************************************************************)
C13_StatusFrameShown ==
    pc = "L402" =>
        /\ Screen(ddram) = StatusFrame(isNight, motion, brightness)
        /\ Len(StatusFrame(isNight, motion, brightness)[1]) = Columns
        /\ Len(StatusFrame(isNight, motion, brightness)[2]) = Columns
        /\ \A col \in 13..Columns : Cell(ddram, CellAddr(1, col)) = Blank
        /\ \A col \in 12..Columns : Cell(ddram, CellAddr(2, col)) = Blank

C13_Witness ==
    /\ pc = "L402" /\ ~firstCycle /\ event = "SUNRISE"
    /\ isNight = 0 /\ motion = 0
    /\ Screen(ddram)[1] = <<68, 97, 121, 32, 32, 32, 77, 58, 78, 79, 32, 32,
                            32, 32, 32, 32>>

(***************************************************************************)
(* The bytes of a status render: the cursor command and the text of each   *)
(* row.                                                                    *)
(***************************************************************************)
StatusBytes(n, m, level) ==
    LET row1 == (IF n = 1 THEN StrNight ELSE StrDay) \o StrM
                    \o (IF m = 1 THEN StrYes ELSE StrNo)
        row2 == StrLight \o (IF level = 2 THEN StrOn ELSE StrOff)
    IN  << <<"cmd", 128>> >> \o [i \in 1..Len(row1) |-> <<"data", row1[i]>>]
            \o << <<"cmd", 192>> >> \o [i \in 1..Len(row2) |-> <<"data", row2[i]>>]

IsSuffix(t, q) == \E k \in 0..Len(q) : t = SubSeq(q, k + 1, Len(q))

RenderCalled == call # <<>> /\ call[1] = "Update_Display"

(***************************************************************************)
(* C14: Update_Display is a function of (isNight, motion, level) alone: it *)
(* sends the row 1 text "Night " or "Day   ", "M:", "YES " or "NO  " and   *)
(* the row 2 text "Light:", "ON   " for level FULL (2) and "OFF  "         *)
(* otherwise, whatever the display showed; a second call with the same     *)
(* arguments sends the same bytes and leaves the same frame, the same      *)
(* display memory outside the frame and the same address counter as the    *)
(* first.                                                                  *)
(***************************************************************************)
C14_RenderIsFunction ==
    RenderCalled =>
        LET bytes == StatusBytes(call[2], call[3], call[4])
        IN  /\ Sending("Update_Display_ret") =>
                  /\ IsSuffix(txq, bytes)
                  /\ lpc # "idle" => arg = bytes[Len(bytes) - Len(txq)]
            /\ pc = "Update_Display_ret" =>
                  /\ Screen(ddram) = StatusFrame(call[2], call[3], call[4])
                  /\ ac = <<"DD", CellAddr(2, 12)>>
                  /\ \A a \in DDAddr \ VisibleAddr : Cell(ddram, a) = Blank

C14_Witness ==
    /\ pc = "Update_Display_ret"
    /\ call = <<"Update_Display", 1, 1, 2, 2>>
    /\ Screen(ddram)[2] = <<76, 105, 103, 104, 116, 58, 79, 78, 32, 32, 32,
                            32, 32, 32, 32, 32>>

(***************************************************************************)
(* The sunrise/sunset screen.  A time text is two decimal digits, a colon  *)
(* and two decimal digits, the digits read as numbers giving the hour and  *)
(* the minute.                                                             *)
(***************************************************************************)
IsDigit(ch) == ch \in 48..57
IsTimeText(t, h, m) ==
    /\ IsDigit(t[1]) /\ IsDigit(t[2]) /\ 10 * (t[1] - 48) + (t[2] - 48) = h
    /\ t[3] = 58
    /\ IsDigit(t[4]) /\ IsDigit(t[5]) /\ 10 * (t[4] - 48) + (t[5] - 48) = m
IsOverlayRow(r, label, h, m) ==
    /\ SubSeq(r, 1, 8) = label
    /\ IsTimeText(SubSeq(r, 9, 13), h, m)
    /\ \A col \in 14..Columns : r[col] = Blank
OverlayShown ==
    /\ IsOverlayRow(Screen(ddram)[1], StrSunrise, sunrise_h, sunrise_m)
    /\ IsOverlayRow(Screen(ddram)[2], StrSunset, sunset_h, sunset_m)
\* the k-th byte of the 29 that Show_Sunrise_Sunset sends before its dwell
IsOverlayByte(k, b) ==
    CASE k = 1        -> b = <<"cmd", 1>>
      [] k = 2        -> b = <<"cmd", 128>>
      [] k \in 3..10  -> b = <<"data", StrSunrise[k - 2]>>
      [] k \in 11..15 -> b[1] = "data"
      [] k = 16       -> b = <<"cmd", 192>>
      [] k \in 17..24 -> b = <<"data", StrSunset[k - 16]>>
      [] k \in 25..29 -> b[1] = "data"
      [] OTHER        -> FALSE

C15_State ==
    /\ InOverlay => event # "none"
    /\ (Sending("L545") /\ lpc # "idle") => IsOverlayByte(29 - Len(txq), arg)
    /\ (Sending("L545") /\ lpc = "idle") =>
          (Len(txq) = 29 \/ IsOverlayByte(29 - Len(txq), arg))
    /\ pc \in {"L545", "L546"} => OverlayShown
    /\ Sending("L379") =>
          /\ lpc = "idle" => (txq = << <<"cmd", 1>> >> /\ OverlayShown)
          /\ lpc # "idle" => (txq = <<>> /\ arg = <<"cmd", 1>>)
    /\ (pc = "L379" /\ event # "none") =>
          (ddram = DisplayReset /\ ac = <<"DD", 0>>)

C15_Step ==
    /\ (~InOverlay /\ InOverlay') => (pc = "L370" \/ pc = "L376") /\ pc' = "L535"
    /\ (InOverlay /\ ~InOverlay') => Sending("L379") /\ pc' = "L379"
    /\ (~Sending("L402") /\ Sending("L402")') => pc = "L401"

(***************************************************************************)
(* C15: on a detected edge Show_Sunrise_Sunset sends, in this order, the   *)
(* clear command, row 1 "Sunrise:HH:MM", row 2 "Sunset :HH:MM", waits the  *)
(* dwell and sends the clear command again; for hours 0..23 and minutes    *)
(* 0..59 each field is two decimal digits (zero-padded) with a colon       *)
(* between; the status render starts only after the second clear.          *)
(***************************************************************************)
C15_OverlaySequence == [](C15_State) /\ [][C15_Step]_vars

C15_Witness ==
    /\ pc = "L545" /\ event = "SUNRISE"
    /\ sunrise_h = 6 /\ sunrise_m = 5
    /\ Screen(ddram)[1] = <<83, 117, 110, 114, 105, 115, 101, 58,
                            48, 54, 58, 48, 53, 32, 32, 32>>
    /\ Screen(ddram)[2] = <<83, 117, 110, 115, 101, 116, 32, 58,
                            48, 48, 58, 48, 48, 32, 32, 32>>

(***************************************************************************)
(* Characters still to be written at the display's current address: the    *)
(* byte in transfer that the display has not executed yet, and the data    *)
(* bytes queued behind it up to the next command.                          *)
(***************************************************************************)
RECURSIVE DataRun(_)
DataRun(q) ==
    IF q = <<>> \/ q[1][1] = "cmd" THEN 0 ELSE 1 + DataRun(Tail(q))
PendingBytes ==
    (IF lpc \in {"idle", "L470"} THEN <<>> ELSE <<arg>>) \o txq

(***************************************************************************)
(* C16: whenever characters are written (LCD_String, LCD_Print_Time, from  *)
(* main, Update_Display and Show_Sunrise_Sunset), the address counter is   *)
(* at a visible cell and its column plus the number of characters still to *)
(* be written there stays within column 16 of that row: no character lands *)
(* outside the 16 visible columns.                                         *)
(***************************************************************************)
C16_WritesFit ==
    (pc = "tx" /\ DataRun(PendingBytes) > 0) =>
        /\ ac[1] = "DD" /\ ac[2] \in VisibleAddr
        /\ LineIndex(ac[2]) - 1 + DataRun(PendingBytes) <= Columns

C16_Witness ==
    /\ Sending("L545") /\ txq = <<>> /\ lpc = "L468d"
    /\ arg[1] = "data" /\ ac = <<"DD", CellAddr(2, 13)>>

(***************************************************************************)
(* C17: a step of the tick handler (its entry included) changes only the   *)
(* clock fields, the interrupt flag and the interrupt state: the latch,    *)
(* the locals, the records, the actuator line, the display lines and the   *)
(* position of the main program and of a transfer in progress stay as they *)
(* are, so a transfer interrupted by a tick still delivers the two nibbles *)
(* of its byte; a step of the main program changes no clock field.         *)
(***************************************************************************)
InHandlerStep == isr # "idle" \/ isr' # "idle"

C17_Step ==
    /\ InHandlerStep =>
          UNCHANGED <<prevLDRState, isNight, motion, brightness, recVars, RC1,
                      LCD_RS, LCD_EN, LCD_D, lpc, arg, rx, ddram, ac,
                      pc, ret, txq, TMR2ON, TMR2IE, PEIE>>
    /\ ~InHandlerStep => UNCHANGED clockVars

C17_State ==
    lpc = "L470" =>
        rx = << <<LCD_RS, arg[2] \div 16>>, <<LCD_RS, arg[2] % 16>> >>

C17_HandlerFrame == [](C17_State) /\ [][C17_Step]_vars

C17_Witness ==
    /\ isr = "L327" /\ seconds = 1 /\ ticks = 1
    /\ LCD_EN = 1 /\ lpc = "L468d" /\ arg = <<"data", 58>>
    /\ Sending("L402")

(***************************************************************************)
(* C18: from the return of Interrupt_Init on, in every state of the main   *)
(* program (the display busy-waits, the 150 ms idle and the 5 s dwell      *)
(* included) the timer runs and its interrupt is enabled (TMR2IE, PEIE,    *)
(* and GIE except inside the handler, which sets it again on return); a    *)
(* raised flag is served at once, and every tick has advanced the clock by *)
(* one second when its handler has returned.                               *)
(***************************************************************************)
Armed == pc \notin {"Port_Init", "Timer2_Init", "Interrupt_Init"}
ClockSeconds == (hours * MinPerHour + minutes) * SecPerMin + seconds

C18_TickSourceStaysEnabled ==
    /\ Armed =>
          /\ TMR2ON = 1 /\ TMR2IE = 1 /\ PEIE = 1
          /\ GIE = 1 <=> isr = "idle"
    /\ TMR2IF = 1 => isr \in {"L322", "L324"}
    /\ isr = "idle" =>
          ClockSeconds =
              (BootHours * MinPerHour * SecPerMin + ticks)
                  % (HourPerDay * MinPerHour * SecPerMin)

C18_Witness ==
    /\ pc = "L545" /\ isr = "ret" /\ GIE = 0
    /\ ticks = 2 /\ seconds = 2 /\ TMR2IF = 0

(***************************************************************************)
(* Phases of a cycle of the main loop: 1 sample, 2 edge handling (the      *)
(* sunrise/sunset screen and its dwell included), 3 latch update and       *)
(* actuator write, 4 status render, 5 idle; 0 before the loop.             *)
(***************************************************************************)
CyclePhase ==
    CASE pc \in {"L363", "L364"}                           -> 1
      [] pc \in {"L367", "L369", "L370", "L375", "L376"}   -> 2
      [] InOverlay                                         -> 2
      [] pc \in {"L379", "L382"}                           -> 3
      [] pc = "L401" \/ Sending("L402")                    -> 4
      [] pc = "L402"                                       -> 5
      [] OTHER                                             -> 0

C19_State ==
    /\ CyclePhase = 4 =>
          /\ RC1 = 1 <=> (isNight = 1 /\ motion = 1)
          /\ brightness = (IF RC1 = 1 THEN 2 ELSE 0)
          /\ Sending("L402") =>
                IsSuffix(txq, StatusBytes(isNight, motion, brightness))
    /\ (pc = "L402" /\ lpc = "idle") =>
          Screen(ddram)[1] = StatusFrame(isNight, motion, brightness)[1]

C19_Step ==
    /\ (CyclePhase > 0 /\ CyclePhase' # CyclePhase) =>
          CyclePhase' = (CyclePhase % 5) + 1
    /\ (CyclePhase = 0 /\ CyclePhase' # 0) => (pc = "L359" /\ CyclePhase' = 1)
    /\ RC1' # RC1 => (pc = "L382" /\ pc' = "L401")
    /\ CyclePhase = 2 => RC1' = RC1

(***************************************************************************)
(* C19: a cycle runs sample, edge handling (with the whole sunrise/sunset  *)
(* screen and its dwell on an edge), actuator write, status render, idle,  *)
(* in this order.  When the status render begins the actuator line equals  *)
(* the decision for this cycle's sample and the text sent shows this       *)
(* sample; during the edge handling the actuator line keeps the value of   *)
(* the previous cycle and changes only at the light control after the      *)
(* final clear.                                                            *)
(***************************************************************************)
C19_CycleOrder == [](C19_State) /\ [][C19_Step]_vars

C19_Witness ==
    /\ pc = "L545" /\ event = "SUNSET" /\ ~firstCycle
    /\ isNight = 1 /\ motion = 1 /\ RC1 = 0

(***************************************************************************)
(* C20: the brightness code passed to Update_Display is only ever 0 or 2,  *)
(* so the basic variant (level == 2) and the sunrise/sunset variant        *)
(* (level != 0) send the same bytes to the display; for the                *)
(* sample of a cycle both variants write the same actuator value and       *)
(* brightness code; after a status render row 2 begins "Light:ON" exactly  *)
(* when the actuator line is high and "Light:OFF" exactly when it is low.  *)
(***************************************************************************)
StrLightOn  == StrLight \o <<79, 78>>
StrLightOff == StrLight \o <<79, 70, 70>>

C20_VariantsAgree ==
    /\ AfterLight =>
          /\ brightness \in {0, 2}
          /\ RC1 = LightLine_main_c(isNight, motion)
          /\ brightness = LightLevel_main_c(isNight, motion)
          /\ Update_Display_main_c(isNight, motion,
                                   LightLevel_main_c(isNight, motion))
                = Update_Display(isNight, motion, brightness)
    /\ pc = "L402" =>
          /\ RC1 = 1 <=> SubSeq(Screen(ddram)[2], 1, 8) = StrLightOn
          /\ RC1 = 0 <=> SubSeq(Screen(ddram)[2], 1, 9) = StrLightOff

C20_Witness ==
    /\ pc = "L402" /\ firstCycle
    /\ RC1 = 1 /\ brightness = 2
    /\ SubSeq(Screen(ddram)[2], 1, 8) = <<76, 105, 103, 104, 116, 58, 79, 78>>

====
